---- MODULE Spec2Model ----
(***************************************************************************)
(* The check-cycle engine of resonite-issue-notify (src/main.mjs): the     *)
(* GitHubDiscordBot class, from construction through start(), the first   *)
(* cycle, the interval timer's cycles and the shutdown handlers.           *)
(*                                                                         *)
(* Time is a discrete clock of whole seconds.  An awaited call (a fetch, a *)
(* send, a file read or write) takes 0..MaxDelay ticks, sleep(1000) takes  *)
(* at least one tick.  Strings that the code splits and trims              *)
(* (REPOSITORIES) are sequences of one-character strings; every other      *)
(* string is an opaque value.                                              *)
(***************************************************************************)
EXTENDS Integers, Sequences, FiniteSets, TLC

\* ------------------------------------------------------------ bounds
\* ticks the clock may advance during one run
MaxTicks == 3
\* ticks one awaited network or file call may take
MaxDelay == 1
\* items in one upstream response
MaxResp == 2
\* cycles started by the interval timer during one run
MaxTimerCycles == 2
\* runCheck invocations in flight at the same time
MaxInFlight == 2

\* ------------------------------------------------------------ constants
\* 60 * 60 * 1000 ms, in seconds
OneHour == 3600
\* the default of checkInterval, in ms
DefaultInterval == 300000
\* the ms of sleep(1000), one tick of the clock
Second == 1000

StartTime == 2 * OneHour
MaxTime == StartTime + MaxTicks

\* An optional value (a property or an environment variable that may be
\* undefined) is the empty set or a one-element set.
None == {}
Some(v) == {v}
The(o) == CHOOSE v \in o : TRUE

\* ------------------------------------------------------------ strings
\* the index of the first "," of s at or after i, 0 when there is none
RECURSIVE IndexOfComma(_, _)
IndexOfComma(s, k) ==
    IF k > Len(s) THEN 0
    ELSE IF s[k] = "," THEN k
    ELSE IndexOfComma(s, k + 1)

\* String.prototype.split(','): "" gives [""], "a," gives ["a", ""]
RECURSIVE split(_)
split(s) ==
    LET k == IndexOfComma(s, 1)
    IN  IF k = 0 THEN <<s>>
        ELSE <<SubSeq(s, 1, k - 1)>> \o split(SubSeq(s, k + 1, Len(s)))

\* String.prototype.trim()
RECURSIVE trim(_)
trim(s) ==
    IF s = <<>> THEN s
    ELSE IF Head(s) = " " THEN trim(Tail(s))
    ELSE IF s[Len(s)] = " " THEN trim(SubSeq(s, 1, Len(s) - 1))
    ELSE s

RepoA == <<"a">>
RepoB == <<"b">>
RepoC == <<"c">>

\* ------------------------------------------------------------ environment
\* process.env as the constructor reads it: REPOSITORIES is unset or a
\* string, CHECK_INTERVAL is unset or a number of ms, every other variable
\* is present (TRUE) or not.
Env(webhook, repos, openai, inst, tok, chan) ==
    [DISCORD_WEBHOOK_URL |-> webhook, REPOSITORIES |-> repos,
     CHECK_INTERVAL |-> None,
     OPENAI_API_KEY |-> openai, MISSKEY_INSTANCE_URL |-> inst,
     MISSKEY_TOKEN |-> tok, MISSKEY_CHANNEL_ID |-> chan]

\* the environment e with CHECK_INTERVAL set
Every(ms, e) == [e EXCEPT !.CHECK_INTERVAL = Some(ms)]

Environments ==
    { Env(TRUE, Some(<<"a", ",", "b">>), FALSE, TRUE, TRUE, FALSE),
      Env(TRUE, Some(<<"a", ",", " ", "b">>), FALSE, FALSE, FALSE, FALSE),
      Env(TRUE, Some(<<"a">>), FALSE, TRUE, TRUE, TRUE),
      Env(TRUE, Some(<<",", "a">>), FALSE, FALSE, FALSE, FALSE),
      Env(TRUE, Some(<<>>), FALSE, FALSE, FALSE, FALSE),
      Env(TRUE, None, FALSE, FALSE, FALSE, FALSE),
      Env(FALSE, Some(<<"a">>), FALSE, FALSE, FALSE, FALSE) }

\* one repository, Discord only
EnvironmentsUpstream ==
    { Env(TRUE, Some(<<"a">>), FALSE, FALSE, FALSE, FALSE) }

\* the translation backend configured
EnvironmentsTranslate ==
    { Env(TRUE, Some(<<"a">>), TRUE, FALSE, FALSE, FALSE) }

\* a poll interval of one second: as long as the pause after one repository
EnvironmentsOverlap ==
    { Every(Second, Env(TRUE, Some(<<"a">>), FALSE, FALSE, FALSE, FALSE)) }

\* ------------------------------------------------------------ persisted state
\* one entry of the watermark map; a field is None when the entry lacks it
Times(iss, com) == [issues |-> iss, comments |-> com]
At(t) == Times(Some(t), Some(t))

\* a JSON object as a function from its keys
EmptyObj == [k \in {} |-> At(0)]
Obj1(k, v) == [x \in {k} |-> v]
Obj2(k1, v1, k2, v2) == [x \in {k1, k2} |-> IF x = k1 THEN v1 ELSE v2]

\* the content of last_check.json, and the value JSON.parse gives for it
Absent == [kind |-> "ENOENT", obj |-> EmptyObj]
JsonNull == [kind |-> "null", obj |-> EmptyObj]
Json(o) == [kind |-> "object", obj |-> o]

\* what last_check.json may hold when the process starts: nothing, JSON
\* null, or an object written by an earlier run (every instant earlier
\* than the start of this run), possibly for another repository list or
\* with an entry that lacks its fields.
InitFiles ==
    { Absent, JsonNull, Json(EmptyObj),
      Json(Obj1(RepoA, Times(Some(StartTime - 5), Some(StartTime - 9)))),
      Json(Obj2(RepoA, At(StartTime - 5),
                RepoB, Times(Some(StartTime - OneHour), Some(StartTime - 2)))),
      Json(Obj2(RepoA, Times(None, None), RepoC, At(StartTime - 7))) }

InitFilesUpstream ==
    { Json(Obj1(RepoA, Times(Some(StartTime - 5), Some(StartTime - 9)))) }

InitFilesTranslate ==
    { Json(Obj1(RepoA, Times(Some(StartTime - 5), Some(StartTime - 9)))) }

InitFilesOverlap ==
    { Absent, Json(Obj1(RepoA, Times(Some(StartTime - 5), Some(StartTime - 9)))) }

Slots == 1 .. MaxInFlight

VARIABLES
    env,            \* process.env
    proc,           \* start(): "new", "first", "armed", "exit0", "exit1", "killed"
    clock,          \* Date.now(), in seconds
    file,           \* last_check.json
    timerCycles,    \* cycles the interval timer has started
    pc,             \* per runCheck invocation: where it is suspended
    cycleStart,     \* the instant the cycle's watermark load returned
    loaded,         \* what getLastCheckTimes returned
    lastCheckTimes, \* runCheck's lastCheckTimes, mutated by checkRepository
    idx,            \* position of the for..of loop over this.repositories
    repoTimes,      \* checkRepository's repoTimes
    newIssues,      \* checkRepository's newIssues
    newComments,    \* checkRepository's newComments
    i,              \* position of the for..of loop over newIssues / newComments
    issuesFetch,    \* outcome of the issues list call of this repository
    commentsFetch,  \* outcome of the comments list call of this repository
    sendLog,        \* the POSTs of the loop over newIssues / newComments, in order
    threw,          \* checkRepository's catch (line 342) was entered
    done,           \* repositories whose checkRepository returned, this cycle
    activity,       \* a list call of this cycle returned a qualifying item
    writes,         \* successful writes of last_check.json by this process
    born,           \* the item created upstream during the run, if any
    bornPosts       \* POSTs to Discord made for that item

vars == <<env, proc, clock, file, timerCycles, pc, cycleStart, loaded,
          lastCheckTimes, idx, repoTimes, newIssues, newComments, i,
          issuesFetch, commentsFetch, sendLog, threw, done, activity, writes,
          born, bornPosts>>

\* ------------------------------------------------------------ constructor
discordWebhook == env.DISCORD_WEBHOOK_URL
\* parseInt(process.env.CHECK_INTERVAL) || 300000
checkInterval ==
    IF env.CHECK_INTERVAL = None \/ env.CHECK_INTERVAL = Some(0)
    THEN DefaultInterval ELSE The(env.CHECK_INTERVAL)
\* process.env.REPOSITORIES?.split(',') || []
repositories ==
    IF env.REPOSITORIES = None THEN <<>> ELSE split(The(env.REPOSITORIES))
openai == env.OPENAI_API_KEY
\* the guard of sendMisskeyNotification
misskeyConfigured ==
    env.MISSKEY_INSTANCE_URL /\ env.MISSKEY_TOKEN /\ env.MISSKEY_CHANNEL_ID

InitWith(environments, files) ==
    /\ env \in environments
    /\ file \in files
    /\ proc = "new"
    /\ clock = StartTime
    /\ timerCycles = 0
    /\ pc = [c \in Slots |-> "idle"]
    /\ cycleStart = [c \in Slots |-> 0]
    /\ loaded = [c \in Slots |-> Json(EmptyObj)]
    /\ lastCheckTimes = [c \in Slots |-> Json(EmptyObj)]
    /\ idx = [c \in Slots |-> 0]
    /\ repoTimes = [c \in Slots |-> Times(None, None)]
    /\ newIssues = [c \in Slots |-> <<>>]
    /\ newComments = [c \in Slots |-> <<>>]
    /\ i = [c \in Slots |-> 0]
    /\ issuesFetch = [c \in Slots |-> "none"]
    /\ commentsFetch = [c \in Slots |-> "none"]
    /\ sendLog = [c \in Slots |-> <<>>]
    /\ threw = [c \in Slots |-> FALSE]
    /\ done = [c \in Slots |-> {}]
    /\ activity = [c \in Slots |-> FALSE]
    /\ writes = 0
    /\ born = None
    /\ bornPosts = 0

Init == InitWith(Environments, InitFiles)

InitOverlap == InitWith(EnvironmentsOverlap, InitFilesOverlap)

InitTranslate == InitWith(EnvironmentsTranslate, InitFilesTranslate)

InitUpstream == InitWith(EnvironmentsUpstream, InitFilesUpstream)

\* ------------------------------------------------------------ helpers
Delays == 0 .. MaxDelay

\* the sequences over S of length at most n
RECURSIVE SeqsUpTo(_, _)
SeqsUpTo(S, n) ==
    IF n = 0 THEN {<<>>}
    ELSE LET shorter == SeqsUpTo(S, n - 1)
         IN  shorter \cup {Append(q, x) : q \in {r \in shorter : Len(r) = n - 1}, x \in S}

Range(q) == {q[k] : k \in 1 .. Len(q)}

\* the lowest index k >= from of this.repositories whose entry is not blank
\* after trim(), Len + 1 when there is none (runCheck, lines 355-357)
RECURSIVE nextIndex(_)
nextIndex(from) ==
    IF from > Len(repositories) THEN from
    ELSE IF trim(repositories[from]) # <<>> THEN from
    ELSE nextIndex(from + 1)

\* the repository a runCheck invocation is processing
repo(c) == trim(repositories[idx[c]])

\* one run of a slot's local variables back to their initial values
Idle(c) ==
    /\ pc' = [pc EXCEPT ![c] = "idle"]
    /\ cycleStart' = [cycleStart EXCEPT ![c] = 0]
    /\ loaded' = [loaded EXCEPT ![c] = Json(EmptyObj)]
    /\ lastCheckTimes' = [lastCheckTimes EXCEPT ![c] = Json(EmptyObj)]
    /\ idx' = [idx EXCEPT ![c] = 0]
    /\ repoTimes' = [repoTimes EXCEPT ![c] = Times(None, None)]
    /\ newIssues' = [newIssues EXCEPT ![c] = <<>>]
    /\ newComments' = [newComments EXCEPT ![c] = <<>>]
    /\ i' = [i EXCEPT ![c] = 0]
    /\ issuesFetch' = [issuesFetch EXCEPT ![c] = "none"]
    /\ commentsFetch' = [commentsFetch EXCEPT ![c] = "none"]
    /\ sendLog' = [sendLog EXCEPT ![c] = <<>>]
    /\ threw' = [threw EXCEPT ![c] = FALSE]
    /\ done' = [done EXCEPT ![c] = {}]
    /\ activity' = [activity EXCEPT ![c] = FALSE]

\* start() resumes after `await this.runCheck()` (line 388): the interval
\* timer and the signal handlers are registered (lines 391-406)
afterRunCheck == IF proc = "first" THEN "armed" ELSE proc

running == proc \in {"first", "armed"}

\* ------------------------------------------------------------ start
\* start(), lines 370-388: the two configuration checks, then the first
\* runCheck, which suspends in fs.readFile
start ==
    /\ proc = "new"
    /\ IF ~discordWebhook \/ Len(repositories) = 0
       THEN /\ proc' = "exit1"
            /\ pc' = pc
       ELSE /\ proc' = "first"
            /\ pc' = [pc EXCEPT ![1] = "load"]
    /\ UNCHANGED <<env, born, bornPosts, clock, file, timerCycles, cycleStart, loaded,
                   lastCheckTimes, idx, repoTimes, newIssues, newComments, i,
                   issuesFetch, commentsFetch, sendLog, threw, done,
                   activity, writes>>

\* a poll interval at which the timer can fire before a cycle of the run
\* has returned: the runs observed last MaxTicks seconds at most
intervalWithinRun == checkInterval <= MaxTicks * Second

\* the setInterval callback, lines 391-393: a new runCheck, whatever the
\* earlier ones are doing.  setInterval fires it checkInterval after the
\* previous firing.
intervalCallback ==
    /\ proc = "armed"
    /\ timerCycles < MaxTimerCycles
    /\ intervalWithinRun \/ \A b \in Slots : pc[b] = "idle"
    /\ \E c \in Slots :
        /\ pc[c] = "idle"
        /\ \A b \in Slots : b < c => pc[b] # "idle"
        /\ pc' = [pc EXCEPT ![c] = "load"]
    /\ timerCycles' = timerCycles + 1
    /\ UNCHANGED <<env, born, bornPosts, proc, clock, file, cycleStart, loaded,
                   lastCheckTimes, idx, repoTimes, newIssues, newComments, i,
                   issuesFetch, commentsFetch, sendLog, threw, done,
                   activity, writes>>

\* ------------------------------------------------------------ watermark store
\* getLastCheckTimes, lines 59-75: the parsed file, or on any failure of
\* the read every entry of this.repositories, as configured (not trimmed),
\* at one hour before now
getLastCheckTimes(readOk, now) ==
    IF readOk THEN file
    ELSE Json([r \in Range(repositories) |-> At(now - OneHour)])

\* runCheck, lines 352-353: the cycle's load; a read can fail whatever the
\* file holds, and always fails when there is no file
loadWith(c, outcomes) ==
    /\ running
    /\ pc[c] = "load"
    /\ \E readOk \in outcomes :
        /\ readOk => file.kind # "ENOENT"
        /\ LET times == getLastCheckTimes(readOk, clock)
           IN  /\ loaded' = [loaded EXCEPT ![c] =
                      IF readOk THEN times ELSE [times EXCEPT !.kind = "default"]]
               /\ lastCheckTimes' = [lastCheckTimes EXCEPT ![c] = times]
    /\ cycleStart' = [cycleStart EXCEPT ![c] = clock]
    /\ pc' = [pc EXCEPT ![c] = "repo"]
    /\ idx' = [idx EXCEPT ![c] = 1]
    /\ UNCHANGED <<env, born, bornPosts, proc, clock, file, timerCycles, repoTimes, newIssues,
                   newComments, i, issuesFetch, commentsFetch, sendLog,
                   threw, done, activity, writes>>

load(c) == loadWith(c, BOOLEAN)

\* the load when every read succeeds
loadRead(c) == loadWith(c, {TRUE})

\* saveLastCheckTimes writing only the configured repositories' entries
saveLastCheckTimes_OnlyConfigured(writeOk, times) ==
    IF writeOk
    THEN Json([r \in DOMAIN times.obj \cap Range(repositories) |-> times.obj[r]])
    ELSE file

\* saveLastCheckTimes, lines 77-79: what the file holds afterwards
saveLastCheckTimes(writeOk, times) == IF writeOk THEN times ELSE file

\* ------------------------------------------------------------ item fetcher
\* createdAfter with >= for >: an item created at `since` passes
createdAfter_OrEqual(item, since) == \E t \in since : item.created >= t

\* new Date(item.created_at) > new Date(since); new Date(undefined) is an
\* invalid date, and every comparison with it is false
createdAfter(item, since) == \E t \in since : item.created > t

\* filterIssues without the pull_request test
filterIssues_KeepPulls(data, since) ==
    SelectSeq(data, LAMBDA issue : createdAfter(issue, since))

\* the filter of checkNewIssues, lines 94-97
filterIssues(data, since) ==
    SelectSeq(data, LAMBDA issue : ~issue.pull_request /\ createdAfter(issue, since))

\* the filter of checkNewComments, lines 114-116
filterComments(data, since) ==
    SelectSeq(data, LAMBDA comment : createdAfter(comment, since))

\* creation instants an upstream response is drawn from: around `since`,
\* since the upstream filter is on the update time, not the creation time
ResponseTimes(since) ==
    IF since = None THEN {clock}
    ELSE {The(since) - 1, The(since), The(since) + 1}

\* an issue of the list-issues response: created_at, whether it carries a
\* pull_request key, whether user is an object (the API declares it nullable)
IssueItems(since) ==
    [created : ResponseTimes(since), pull_request : BOOLEAN, user : BOOLEAN,
     tracked : {FALSE}]

CommentItems(since) ==
    [created : ResponseTimes(since), user : BOOLEAN, tracked : {FALSE}]

\* the item created upstream during the run, as the list call of repository
\* r for its kind returns it: it is in every response whose `since` it is
\* later than
trackedIssue(r, since) ==
    {[created |-> b.created, pull_request |-> FALSE, user |-> TRUE, tracked |-> TRUE] :
        b \in {x \in born : x.repo = r /\ x.kind = "issue" /\ createdAfter(x, since)}}

trackedComment(r, since) ==
    {[created |-> b.created, user |-> TRUE, tracked |-> TRUE] :
        b \in {x \in born : x.repo = r /\ x.kind = "comment" /\ createdAfter(x, since)}}

\* q with x at position p
Insert(q, p, x) == SubSeq(q, 1, p - 1) \o <<x>> \o SubSeq(q, p, Len(q))

\* the responses of at most n items over Items; each holds the item of
\* `must`, if there is one, at any position
Responses(Items, must, n) ==
    IF must = {} \/ n = 0 THEN SeqsUpTo(Items, n)
    ELSE {Insert(t[1], t[2], t[3]) :
             t \in {u \in SeqsUpTo(Items, n - 1) \X (1 .. n) \X must : u[2] <= Len(u[1]) + 1}}

\* ------------------------------------------------------------ runCheck loop
\* runCheck, lines 355-360, with the first statement of checkRepository
\* (lines 244-250): the next configured repository that is not blank, or
\* the save after the last one.  lastCheckTimes[repo] on null is a
\* TypeError outside checkRepository's try: runCheck's catch (line 365)
\* ends the cycle.
runCheckLoop(c) ==
    /\ running
    /\ pc[c] = "repo"
    /\ LET k == nextIndex(idx[c])
           lct == lastCheckTimes[c]
           r == trim(repositories[k])
       IN  IF k > Len(repositories)
           THEN /\ pc' = [pc EXCEPT ![c] = "save"]
                /\ idx' = [idx EXCEPT ![c] = k]
                /\ UNCHANGED <<proc, cycleStart, loaded, lastCheckTimes,
                               repoTimes, newIssues, newComments, i,
                               issuesFetch, commentsFetch, sendLog, threw, done,
                               activity>>
           ELSE IF lct.kind = "null"
           THEN /\ Idle(c)
                /\ proc' = afterRunCheck
           ELSE /\ pc' = [pc EXCEPT ![c] = "fetchIssues"]
                /\ idx' = [idx EXCEPT ![c] = k]
                /\ repoTimes' = [repoTimes EXCEPT ![c] =
                       IF r \in DOMAIN lct.obj THEN lct.obj[r]
                       ELSE Times(Some(clock - OneHour), Some(clock - OneHour))]
                /\ UNCHANGED <<proc, cycleStart, loaded, lastCheckTimes,
                               newIssues, newComments, i, issuesFetch,
                               commentsFetch, sendLog, threw, done, activity>>
    /\ UNCHANGED <<env, born, bornPosts, clock, file, timerCycles, writes>>

\* checkNewIssues, lines 81-102: the filtered response, [] on an error
checkNewIssues(error, data, since) ==
    IF error THEN <<>> ELSE filterIssues(data, since)

\* checkNewComments, lines 104-121
checkNewComments(error, data, since) ==
    IF error THEN <<>> ELSE filterComments(data, since)

\* what a list call came to: an error, a response of pull requests only
\* (one of them created after `since`, or none), or any other response
outcome(error, data, since) ==
    IF error THEN "error"
    ELSE IF data # <<>> /\ \A k \in 1 .. Len(data) : data[k].pull_request
    THEN IF \E k \in 1 .. Len(data) : createdAfter(data[k], since)
         THEN "pulls" ELSE "oldpulls"
    ELSE "ok"

\* checkRepository, line 254: the issues list call returns, with a
\* response of at most n items
issuesFetchedUpTo(c, n) ==
    /\ running
    /\ pc[c] = "fetchIssues"
    /\ \E error \in BOOLEAN :
        \E data \in IF error THEN {<<>>}
                    ELSE Responses(IssueItems(repoTimes[c].issues),
                                   trackedIssue(repo(c), repoTimes[c].issues), n) :
            LET result == checkNewIssues(error, data, repoTimes[c].issues)
            IN  /\ newIssues' = [newIssues EXCEPT ![c] = result]
                /\ issuesFetch' = [issuesFetch EXCEPT ![c] =
                       outcome(error, data, repoTimes[c].issues)]
                /\ activity' = [activity EXCEPT ![c] = @ \/ result # <<>>]
                /\ i' = [i EXCEPT ![c] = 1]
                /\ pc' = [pc EXCEPT ![c] =
                       IF result = <<>> THEN "fetchComments" ELSE "issues"]
    /\ UNCHANGED <<env, born, bornPosts, proc, clock, file, timerCycles, cycleStart, loaded,
                   lastCheckTimes, idx, repoTimes, newComments,
                   commentsFetch, sendLog, threw, done, writes>>

issuesFetched(c) == issuesFetchedUpTo(c, MaxResp)

\* the same call while upstream has nothing to list
issuesFetchedEmpty(c) == issuesFetchedUpTo(c, 0)

\* checkRepository, line 288: the comments list call returns, with a
\* response of at most n items.  The time the awaited calls of one
\* repository take is accounted here.
commentsFetchedUpTo(c, n) ==
    /\ running
    /\ pc[c] = "fetchComments"
    /\ \E d \in Delays, error \in BOOLEAN :
        \E data \in IF error THEN {<<>>}
                    ELSE Responses(CommentItems(repoTimes[c].comments),
                                   trackedComment(repo(c), repoTimes[c].comments), n) :
            LET result == checkNewComments(error, data, repoTimes[c].comments)
            IN  /\ clock + d <= MaxTime
                /\ clock' = clock + d
                /\ newComments' = [newComments EXCEPT ![c] = result]
                /\ commentsFetch' = [commentsFetch EXCEPT ![c] =
                       IF error THEN "error" ELSE "ok"]
                /\ activity' = [activity EXCEPT ![c] = @ \/ result # <<>>]
                /\ sendLog' = [sendLog EXCEPT ![c] = <<>>]
                /\ i' = [i EXCEPT ![c] = 1]
                /\ pc' = [pc EXCEPT ![c] =
                       IF result = <<>> THEN "update" ELSE "comments"]
    /\ UNCHANGED <<env, born, bornPosts, proc, file, timerCycles, cycleStart, loaded,
                   lastCheckTimes, idx, repoTimes, newIssues,
                   issuesFetch, threw, done, writes>>

commentsFetched(c) == commentsFetchedUpTo(c, MaxResp)

commentsFetchedEmpty(c) == commentsFetchedUpTo(c, 0)

\* ------------------------------------------------------------ translation
\* translateToJapanese, lines 39-57: null without a call when no backend is
\* configured or the text is empty; else one call, whose failure or empty
\* completion gives null.  `text` tells whether the text is non-empty.
translateToJapanese(text, ok) ==
    IF ~openai THEN [called |-> FALSE, out |-> None]
    ELSE IF ~text THEN [called |-> FALSE, out |-> None]
    ELSE [called |-> TRUE, out |-> IF ok THEN Some("ja") ELSE None]

\* the outcomes a translation call can have; none to choose when none is made
TranslationOutcomes == IF openai THEN BOOLEAN ELSE {TRUE}

\* translation calls among the results rs
Calls(rs) == Cardinality({k \in 1 .. Len(rs) : rs[k].called})

\* `${value}` in a template literal: null gives the text "null"
Interpolate(value) == IF value = None THEN "null" ELSE The(value)

\* ------------------------------------------------------------ payloads
\* What a payload carries about item n: `jp` is what stands in the place of
\* the translated title and of the translated body ("none": no such field),
\* `calls` the translation calls made for it.  Items have a title and a body.

\* createIssueEmbed with the fields of lines 259-272
createIssueEmbed(n, jpTitle, jpBody) ==
    [kind |-> "issue", n |-> n,
     jp |-> IF jpTitle.out # None \/ jpBody.out # None
            THEN <<IF jpTitle.out # None THEN The(jpTitle.out) ELSE "(untranslatable)",
                   IF jpBody.out # None THEN The(jpBody.out) ELSE "none">>
            ELSE <<"none", "none">>,
     calls |-> Calls(<<jpTitle, jpBody>>)]

\* the text of lines 276-278
issueMisskeyText(n, jpTitle, jpBody) ==
    [kind |-> "issue", n |-> n,
     jp |-> <<Interpolate(jpTitle.out), Interpolate(jpBody.out)>>,
     calls |-> 0]

\* createCommentEmbed with the field of lines 293-299
createCommentEmbed(n, jpBody) ==
    [kind |-> "comment", n |-> n,
     jp |-> <<"none", IF jpBody.out # None THEN The(jpBody.out) ELSE "none">>,
     calls |-> Calls(<<jpBody>>)]

\* lines 303-312: the title of the comment's issue, translated; '' when the
\* lookup fails
lookupIssueTitle(lookupOk, ok) ==
    IF lookupOk THEN translateToJapanese(TRUE, ok)
    ELSE [called |-> FALSE, out |-> Some("")]

\* the text of lines 321-322
commentMisskeyText(n, jpIssueTitle, jpBody) ==
    [kind |-> "comment", n |-> n,
     jp |-> <<Interpolate(jpIssueTitle.out), Interpolate(jpBody.out)>>,
     calls |-> Calls(<<jpIssueTitle>>)]

\* ------------------------------------------------------------ senders
\* one POST: its destination, the payload, whether it succeeded, and
\* whether sleep(200) followed (it is inside the try, after the POST)
Post(dest, payload, ok) ==
    [dest |-> dest, kind |-> payload.kind, n |-> payload.n,
     jp |-> payload.jp, calls |-> payload.calls, ok |-> ok, slept |-> ok]

\* sendDiscordNotification posting a second time when the first POST fails
sendDiscordNotification_Retry(embed, ok) ==
    IF ok THEN <<Post("discord", embed, TRUE)>>
    ELSE <<Post("discord", embed, FALSE), Post("discord", embed, TRUE)>>

\* sendDiscordNotification, lines 123-133
sendDiscordNotification(embed, ok) == <<Post("discord", embed, ok)>>

\* sendMisskeyNotification, lines 135-153
sendMisskeyNotification(text, ok) ==
    IF ~misskeyConfigured THEN <<>> ELSE <<Post("misskey", text, ok)>>

\* the outcomes a POST to Misskey can have; none to choose when none is made
MisskeyOutcomes == IF misskeyConfigured THEN BOOLEAN ELSE {TRUE}

\* ------------------------------------------------------------ checkRepository
\* one pass of the loop over newIssues, lines 255-285.  createIssueEmbed
\* reads issue.user.login (line 173): a null user is a TypeError, caught at
\* line 342, and the repository's processing ends there.
issueLoop(c) ==
    /\ running
    /\ pc[c] = "issues"
    /\ LET issue == newIssues[c][i[c]]
       IN  IF ~issue.user
           THEN /\ threw' = [threw EXCEPT ![c] = TRUE]
                /\ pc' = [pc EXCEPT ![c] = "sleep"]
                /\ UNCHANGED <<sendLog, i, bornPosts>>
           ELSE \E discordOk \in BOOLEAN, misskeyOk \in MisskeyOutcomes,
                   titleOk \in TranslationOutcomes, bodyOk \in TranslationOutcomes :
                LET jpTitle == translateToJapanese(TRUE, titleOk)
                    jpBody == translateToJapanese(TRUE, bodyOk)
                IN  /\ sendLog' = [sendLog EXCEPT ![c] =
                           @ \o sendDiscordNotification(
                                    createIssueEmbed(i[c], jpTitle, jpBody), discordOk)
                             \o sendMisskeyNotification(
                                    issueMisskeyText(i[c], jpTitle, jpBody), misskeyOk)]
                    /\ i' = [i EXCEPT ![c] = @ + 1]
                    /\ pc' = [pc EXCEPT ![c] =
                           IF i[c] + 1 > Len(newIssues[c]) THEN "fetchComments" ELSE "issues"]
                    /\ threw' = threw
                    /\ bornPosts' = IF issue.tracked THEN bornPosts + 1 ELSE bornPosts
    /\ UNCHANGED <<env, born, proc, clock, file, timerCycles, cycleStart, loaded,
                   lastCheckTimes, idx, repoTimes, newIssues, newComments,
                   issuesFetch, commentsFetch, done, activity, writes>>

\* one pass of the loop over newComments, lines 289-327.  createCommentEmbed
\* reads comment.user.login (line 212).  The lookup of the parent issue
\* (lines 305-312) has its own catch and changes only the text sent.
commentLoop(c) ==
    /\ running
    /\ pc[c] = "comments"
    /\ LET comment == newComments[c][i[c]]
       IN  IF ~comment.user
           THEN /\ threw' = [threw EXCEPT ![c] = TRUE]
                /\ pc' = [pc EXCEPT ![c] = "sleep"]
                /\ UNCHANGED <<sendLog, i, bornPosts>>
           ELSE \E discordOk \in BOOLEAN, misskeyOk \in MisskeyOutcomes,
                   bodyOk \in TranslationOutcomes, lookupOk \in BOOLEAN,
                   titleOk \in TranslationOutcomes :
                LET jpBody == translateToJapanese(TRUE, bodyOk)
                    jpIssueTitle == lookupIssueTitle(lookupOk, titleOk)
                IN  /\ sendLog' = [sendLog EXCEPT ![c] =
                           @ \o sendDiscordNotification(
                                    createCommentEmbed(i[c], jpBody), discordOk)
                             \o sendMisskeyNotification(
                                    commentMisskeyText(i[c], jpIssueTitle, jpBody), misskeyOk)]
                    /\ i' = [i EXCEPT ![c] = @ + 1]
                    /\ pc' = [pc EXCEPT ![c] =
                           IF i[c] + 1 > Len(newComments[c]) THEN "update" ELSE "comments"]
                    /\ threw' = threw
                    /\ bornPosts' = IF comment.tracked THEN bornPosts + 1 ELSE bornPosts
    /\ UNCHANGED <<env, born, proc, clock, file, timerCycles, cycleStart, loaded,
                   lastCheckTimes, idx, repoTimes, newIssues, newComments,
                   issuesFetch, commentsFetch, done, activity, writes>>

\* advance without the length test: the watermark moves in every cycle
advance_Always(found, now, old) == Some(now)

\* one field of the watermark entry checkRepository writes, lines 330-334
advance(found, now, old) == IF Len(found) > 0 THEN Some(now) ELSE old

\* updateLastCheckTimes advancing a watermark only when every POST in
\* sendLog was accepted
updateLastCheckTimes_OnlyDelivered(c) ==
    /\ running
    /\ pc[c] = "update"
    /\ LET now == clock
           lct == lastCheckTimes[c]
           delivered == \A k \in 1 .. Len(sendLog[c]) : sendLog[c][k].ok
           entry == Times(advance(IF delivered THEN newIssues[c] ELSE <<>>,
                                  now, repoTimes[c].issues),
                          advance(IF delivered THEN newComments[c] ELSE <<>>,
                                  now, repoTimes[c].comments))
       IN  lastCheckTimes' = [lastCheckTimes EXCEPT ![c] =
               Json([k \in DOMAIN lct.obj \cup {repo(c)} |->
                        IF k = repo(c) THEN entry ELSE lct.obj[k]])]
    /\ pc' = [pc EXCEPT ![c] = "sleep"]
    /\ UNCHANGED <<env, born, bornPosts, proc, clock, file, timerCycles, cycleStart, loaded,
                   idx, repoTimes, newIssues, newComments, i, issuesFetch,
                   commentsFetch, sendLog, threw, done, activity, writes>>

\* lines 329-334: `now` is read here, after the fetches and the sends
updateLastCheckTimes(c) ==
    /\ running
    /\ pc[c] = "update"
    /\ LET now == clock
           lct == lastCheckTimes[c]
           entry == Times(advance(newIssues[c], now, repoTimes[c].issues),
                          advance(newComments[c], now, repoTimes[c].comments))
       IN  lastCheckTimes' = [lastCheckTimes EXCEPT ![c] =
               Json([k \in DOMAIN lct.obj \cup {repo(c)} |->
                        IF k = repo(c) THEN entry ELSE lct.obj[k]])]
    /\ pc' = [pc EXCEPT ![c] = "sleep"]
    /\ UNCHANGED <<env, born, bornPosts, proc, clock, file, timerCycles, cycleStart, loaded,
                   idx, repoTimes, newIssues, newComments, i, issuesFetch,
                   commentsFetch, sendLog, threw, done, activity, writes>>

\* repositorySleep with the sleep inside the try: none after a failure
repositorySleep_InsideTry(c) ==
    /\ running
    /\ pc[c] = "sleep"
    /\ clock + 1 <= MaxTime
    /\ clock' = IF threw[c] THEN clock ELSE clock + 1
    /\ done' = [done EXCEPT ![c] = @ \cup {repo(c)}]
    /\ idx' = [idx EXCEPT ![c] = @ + 1]
    /\ pc' = [pc EXCEPT ![c] = "repo"]
    /\ repoTimes' = [repoTimes EXCEPT ![c] = Times(None, None)]
    /\ newIssues' = [newIssues EXCEPT ![c] = <<>>]
    /\ newComments' = [newComments EXCEPT ![c] = <<>>]
    /\ i' = [i EXCEPT ![c] = 0]
    /\ issuesFetch' = [issuesFetch EXCEPT ![c] = "none"]
    /\ commentsFetch' = [commentsFetch EXCEPT ![c] = "none"]
    /\ sendLog' = [sendLog EXCEPT ![c] = <<>>]
    /\ threw' = [threw EXCEPT ![c] = FALSE]
    /\ UNCHANGED <<env, born, bornPosts, proc, file, timerCycles, cycleStart, loaded,
                   lastCheckTimes, activity, writes>>

\* sleep(1000), line 347, after the try/catch; checkRepository returns
repositorySleep(c) ==
    /\ running
    /\ pc[c] = "sleep"
    /\ clock + 1 <= MaxTime
    /\ clock' = clock + 1
    /\ done' = [done EXCEPT ![c] = @ \cup {repo(c)}]
    /\ idx' = [idx EXCEPT ![c] = @ + 1]
    /\ pc' = [pc EXCEPT ![c] = "repo"]
    /\ repoTimes' = [repoTimes EXCEPT ![c] = Times(None, None)]
    /\ newIssues' = [newIssues EXCEPT ![c] = <<>>]
    /\ newComments' = [newComments EXCEPT ![c] = <<>>]
    /\ i' = [i EXCEPT ![c] = 0]
    /\ issuesFetch' = [issuesFetch EXCEPT ![c] = "none"]
    /\ commentsFetch' = [commentsFetch EXCEPT ![c] = "none"]
    /\ sendLog' = [sendLog EXCEPT ![c] = <<>>]
    /\ threw' = [threw EXCEPT ![c] = FALSE]
    /\ UNCHANGED <<env, born, bornPosts, proc, file, timerCycles, cycleStart, loaded,
                   lastCheckTimes, activity, writes>>

\* runCheck, lines 362-367: the save; a failed write is caught at line 365.
\* runCheck returns.
saveWith(c, outcomes) ==
    /\ running
    /\ pc[c] = "save"
    /\ \E writeOk \in outcomes :
        /\ file' = saveLastCheckTimes(writeOk, lastCheckTimes[c])
        /\ writes' = IF writeOk THEN writes + 1 ELSE writes
    /\ Idle(c)
    /\ proc' = afterRunCheck
    /\ UNCHANGED <<env, born, bornPosts, clock, timerCycles>>

save(c) == saveWith(c, BOOLEAN)

\* the save when every write succeeds
saveWritten(c) == saveWith(c, {TRUE})

\* ------------------------------------------------------------ shutdown
\* SIGINT or SIGTERM.  The handlers (lines 396-406) exist once start() has
\* passed the first runCheck; before that the signal's default action ends
\* the process.
shutdown ==
    /\ running
    /\ proc' = IF proc = "armed" THEN "exit0" ELSE "killed"
    /\ pc' = [c \in Slots |-> "idle"]
    /\ cycleStart' = [c \in Slots |-> 0]
    /\ loaded' = [c \in Slots |-> Json(EmptyObj)]
    /\ lastCheckTimes' = [c \in Slots |-> Json(EmptyObj)]
    /\ idx' = [c \in Slots |-> 0]
    /\ repoTimes' = [c \in Slots |-> Times(None, None)]
    /\ newIssues' = [c \in Slots |-> <<>>]
    /\ newComments' = [c \in Slots |-> <<>>]
    /\ i' = [c \in Slots |-> 0]
    /\ issuesFetch' = [c \in Slots |-> "none"]
    /\ commentsFetch' = [c \in Slots |-> "none"]
    /\ sendLog' = [c \in Slots |-> <<>>]
    /\ threw' = [c \in Slots |-> FALSE]
    /\ done' = [c \in Slots |-> {}]
    /\ activity' = [c \in Slots |-> FALSE]
    /\ UNCHANGED <<env, born, bornPosts, clock, file, timerCycles, writes>>

\* ------------------------------------------------------------ specification
Next ==
    \/ start
    \/ intervalCallback
    \/ shutdown
    \/ \E c \in Slots : load(c)
    \/ \E c \in Slots : runCheckLoop(c)
    \/ \E c \in Slots : issuesFetched(c)
    \/ \E c \in Slots : issueLoop(c)
    \/ \E c \in Slots : commentsFetched(c)
    \/ \E c \in Slots : commentLoop(c)
    \/ \E c \in Slots : updateLastCheckTimes(c)
    \/ \E c \in Slots : repositorySleep(c)
    \/ \E c \in Slots : save(c)

Spec == Init /\ [][Next]_vars

\* the same program polling every second, while upstream has nothing to
\* list: start and the interval timer's cycles
NextOverlap ==
    \/ start
    \/ intervalCallback
    \/ shutdown
    \/ \E c \in Slots : load(c)
    \/ \E c \in Slots : runCheckLoop(c)
    \/ \E c \in Slots : issuesFetchedEmpty(c)
    \/ \E c \in Slots : commentsFetchedEmpty(c)
    \/ \E c \in Slots : updateLastCheckTimes(c)
    \/ \E c \in Slots : repositorySleep(c)
    \/ \E c \in Slots : save(c)

SpecOverlap == InitOverlap /\ [][NextOverlap]_vars

\* the same program with OPENAI_API_KEY set
SpecTranslate == InitTranslate /\ [][Next]_vars

\* ------------------------------------------------------------ claims
\* checkRepository has left its try/catch (line 345) and not yet returned
finished(c) == pc[c] = "sleep"

\* the repository's entry in the map a cycle holds; Times(None, None) when
\* there is none
entry(times, r) ==
    IF r \in DOMAIN times.obj THEN times.obj[r] ELSE Times(None, None)

\* the repositories runCheck passes to checkRepository
Configured ==
    {trim(repositories[k]) : k \in 1 .. Len(repositories)} \ {<<>>}

\* C1: for a repository with an entry in the loaded map, once
\* checkRepository has finished, each category's watermark differs from its
\* loaded value exactly when that category's fetch returned a qualifying
\* item.
C1_ChangedIffFound ==
    \A c \in Slots :
        (finished(c) /\ loaded[c].kind = "object" /\ repo(c) \in DOMAIN loaded[c].obj) =>
            /\ (entry(lastCheckTimes[c], repo(c)).issues # loaded[c].obj[repo(c)].issues)
                   <=> (newIssues[c] # <<>>)
            /\ (entry(lastCheckTimes[c], repo(c)).comments # loaded[c].obj[repo(c)].comments)
                   <=> (newComments[c] # <<>>)


\* C2: once this process has written last_check.json, no later write
\* replaces a watermark by an earlier instant.
C2_NeverRegresses ==
    [][(writes > 0 /\ file.kind = "object" /\ file'.kind = "object") =>
          \A r \in DOMAIN file.obj \cap DOMAIN file'.obj :
              /\ \A old \in file.obj[r].issues, new \in file'.obj[r].issues :
                     new >= old
              /\ \A old \in file.obj[r].comments, new \in file'.obj[r].comments :
                     new >= old]_vars

\* C3: a watermark advanced in a cycle is the instant the cycle started,
\* which no fetch of the cycle precedes.
C3_AdvancesToCycleStart ==
    \A c \in Slots :
        (finished(c) /\ ~threw[c]) =>
            /\ newIssues[c] # <<>> =>
                   entry(lastCheckTimes[c], repo(c)).issues = Some(cycleStart[c])
            /\ newComments[c] # <<>> =>
                   entry(lastCheckTimes[c], repo(c)).comments = Some(cycleStart[c])

\* the persisted state the cycle read had nothing for the repository
absentFromState(c) ==
    \/ loaded[c].kind = "default"
    \/ loaded[c].kind = "object" /\ repo(c) \notin DOMAIN loaded[c].obj

inRepository(c) ==
    pc[c] \in {"fetchIssues", "issues", "fetchComments", "comments", "update", "sleep"}

\* C4: a repository absent from the persisted state is fetched, for both
\* categories, since one hour before the cycle started.
C4_BootstrapAtCycleStart ==
    \A c \in Slots :
        (inRepository(c) /\ absentFromState(c)) =>
            repoTimes[c] = At(cycleStart[c] - OneHour)

\* the step in which cycle c's save returns, the file written
saves(c) == pc[c] = "save" /\ pc'[c] = "idle" /\ writes' # writes

\* C5, as claimed: a cycle over at least one repository in which no fetch
\* returned a qualifying item leaves last_check.json as it was, keys and
\* values.
C5_NoActivityNoChange ==
    [][\A c \in Slots :
          (pc[c] = "save" /\ pc'[c] = "idle" /\ ~activity[c] /\ Configured # {}) =>
              file' = file]_vars

\* C5, amended: what such a cycle writes keeps every loaded entry, adds
\* only configured repositories that had none, each at one hour before an
\* instant of the cycle, and is the loaded map when that map has an entry
\* for every configured repository.  (A file holding null is written back
\* as null: a cycle gets to its save with such a state only when no
\* repository is configured.)
C5_NoActivityKeepsLoaded ==
    [][\A c \in Slots : (saves(c) /\ ~activity[c]) =>
            /\ file'.kind = (IF loaded[c].kind = "null" THEN "null" ELSE "object")
            /\ \A r \in DOMAIN loaded[c].obj :
                   r \in DOMAIN file'.obj /\ file'.obj[r] = loaded[c].obj[r]
            /\ \A r \in DOMAIN file'.obj \ DOMAIN loaded[c].obj :
                   /\ r \in Configured
                   /\ \E t \in cycleStart[c] .. clock : file'.obj[r] = At(t - OneHour)
            /\ Configured \subseteq DOMAIN loaded[c].obj =>
                   file'.obj = loaded[c].obj]_vars

\* a cycle without activity is about to write a bootstrapped entry beside
\* the entries it loaded from the file
C5_Witness ==
    \E c \in Slots :
        /\ pc[c] = "save" /\ ~activity[c]
        /\ loaded[c].kind = "object"
        /\ DOMAIN loaded[c].obj # {}
        /\ DOMAIN lastCheckTimes[c].obj # DOMAIN loaded[c].obj

\* C6: every item checkNewIssues or checkNewComments returned was created
\* strictly after the `since` it was called with, and every POST is about
\* one of these items.
C6_ReturnedItemsAreNew ==
    \A c \in Slots :
        /\ \A k \in 1 .. Len(newIssues[c]) :
               /\ repoTimes[c].issues # None
               /\ newIssues[c][k].created > The(repoTimes[c].issues)
        /\ \A k \in 1 .. Len(newComments[c]) :
               /\ repoTimes[c].comments # None
               /\ newComments[c][k].created > The(repoTimes[c].comments)
        /\ \A k \in 1 .. Len(sendLog[c]) :
               sendLog[c][k].n \in
                   1 .. Len(IF sendLog[c][k].kind = "issue"
                            THEN newIssues[c] ELSE newComments[c])

\* an issue and a comment were returned, and the comment was sent
C6_Witness ==
    \E c \in Slots :
        /\ newIssues[c] # <<>> /\ newComments[c] # <<>>
        /\ sendLog[c] # <<>>
        /\ sendLog[c][1].kind = "comment"

\* the issues watermark of the repository in process is the one it was
\* loaded or bootstrapped with
issuesKept(c) ==
    repo(c) \in DOMAIN lastCheckTimes[c].obj =>
        lastCheckTimes[c].obj[repo(c)].issues = repoTimes[c].issues

commentsKept(c) ==
    repo(c) \in DOMAIN lastCheckTimes[c].obj =>
        lastCheckTimes[c].obj[repo(c)].comments = repoTimes[c].comments

\* C7: no pull request is among the issues to notify, and a response of
\* pull requests only gives nothing to notify and leaves the issues
\* watermark as it was.
C7_PullRequestsExcluded ==
    \A c \in Slots :
        /\ \A k \in 1 .. Len(newIssues[c]) : ~newIssues[c][k].pull_request
        /\ issuesFetch[c] \in {"pulls", "oldpulls"} =>
               /\ newIssues[c] = <<>>
               /\ inRepository(c) => issuesKept(c)

\* the response held only pull requests, one created after `since`; the
\* repository is finished, its comments watermark advanced and its issues
\* watermark not
C7_Witness ==
    \E c \in Slots :
        /\ finished(c) /\ ~threw[c]
        /\ issuesFetch[c] = "pulls"
        /\ newComments[c] # <<>>
        /\ repo(c) \in DOMAIN lastCheckTimes[c].obj
        /\ lastCheckTimes[c].obj[repo(c)].comments # repoTimes[c].comments

\* C8: a failed list call is an empty result for that call: nothing is
\* sent for the category, its watermark is kept, checkRepository's catch
\* is not entered, and the repository's other steps follow.
C8_FetchErrorIsEmpty ==
    \A c \in Slots :
        /\ issuesFetch[c] = "error" =>
               /\ newIssues[c] = <<>>
               /\ \A k \in 1 .. Len(sendLog[c]) : sendLog[c][k].kind # "issue"
               /\ pc[c] \in {"fetchComments", "comments", "update", "sleep"}
               /\ issuesKept(c)
               /\ finished(c) => commentsFetch[c] # "none"
        /\ commentsFetch[c] = "error" =>
               /\ newComments[c] = <<>>
               /\ sendLog[c] = <<>>
               /\ ~threw[c]
               /\ pc[c] \in {"update", "sleep"}
               /\ commentsKept(c)
               /\ finished(c) =>
                      /\ repo(c) \in DOMAIN lastCheckTimes[c].obj
                      /\ newIssues[c] # <<>> =>
                             \E t \in cycleStart[c] .. clock :
                                 lastCheckTimes[c].obj[repo(c)].issues = Some(t)

\* the comments call failed after an issue was found: the repository is
\* finished with its issues watermark advanced and its comments watermark
\* kept, and an earlier repository of the cycle is done
C8_Witness ==
    \E c \in Slots :
        /\ finished(c)
        /\ commentsFetch[c] = "error"
        /\ newIssues[c] # <<>>
        /\ done[c] # {}

\* C9: a cycle ends only by its save, after every configured repository.
C9_CycleReachesSave ==
    [][\A c \in Slots : (pc[c] # "idle" /\ pc'[c] = "idle" /\ proc' \in {"first", "armed"}) =>
            pc[c] = "save" /\ done[c] = Configured]_vars

\* POSTs per item: one to Discord, one to Misskey when it is configured
postsPerItem == IF misskeyConfigured THEN 2 ELSE 1

\* the loop the send log belongs to
loopKind(c) ==
    IF pc[c] \in {"issues", "fetchComments"} \/ commentsFetch[c] = "none"
    THEN "issue" ELSE "comment"

\* C10: whatever the outcome of each POST, every item the loop has passed
\* got exactly one POST per enabled destination, in order, and a failed
\* POST never enters checkRepository's catch.
C10_EveryItemSentOnce ==
    \A c \in Slots :
        pc[c] \in {"issues", "fetchComments", "comments", "update", "sleep"} =>
            /\ Len(sendLog[c]) = (i[c] - 1) * postsPerItem
            /\ \A k \in 1 .. (i[c] - 1) :
                   LET at == (k - 1) * postsPerItem
                   IN  /\ sendLog[c][at + 1].dest = "discord"
                       /\ sendLog[c][at + 1].n = k
                       /\ sendLog[c][at + 1].kind = loopKind(c)
                       /\ misskeyConfigured =>
                              /\ sendLog[c][at + 2].dest = "misskey"
                              /\ sendLog[c][at + 2].n = k
                              /\ sendLog[c][at + 2].kind = loopKind(c)
            /\ threw[c] =>
                   LET items == IF loopKind(c) = "issue"
                                THEN newIssues[c] ELSE newComments[c]
                   IN  i[c] \in 1 .. Len(items) /\ ~items[i[c]].user

\* the POST to Discord for the first of MaxResp issues failed; the POST to
\* Misskey for it and both POSTs for each later issue were made, and the
\* repository goes on to its comments
C10_Witness ==
    \E c \in Slots :
        /\ pc[c] = "fetchComments"
        /\ misskeyConfigured
        /\ Len(newIssues[c]) = MaxResp
        /\ Len(sendLog[c]) = 2 * MaxResp
        /\ ~sendLog[c][1].ok
        /\ ~sendLog[c][2 * MaxResp].ok

\* runCheck invocations between their watermark load and their return
inFlight == {c \in Slots : pc[c] # "idle"}

\* C11: at most one cycle is running at any time: the interval timer never
\* starts a cycle while another is between its load and its save.
C11_OneCycleAtATime == Cardinality(inFlight) <= 1

\* C12: without a webhook URL, or without a repository left after
\* splitting and trimming, the process exits with code 1 and no cycle ever
\* loads, fetches, sends or saves.
C12_MissingConfigurationExits ==
    (~discordWebhook \/ Configured = {}) =>
        /\ proc \in {"new", "exit1"}
        /\ inFlight = {}
        /\ writes = 0

\* C13: a termination signal at any point after startup, the first cycle
\* included, ends the process with exit code 0, and with it every cycle in
\* flight.
C13_SignalExitsZero ==
    [][(running /\ proc' \notin {"first", "armed"}) =>
          proc' = "exit0" /\ \A c \in Slots : pc'[c] = "idle"]_vars

\* C14: without a translation backend no translation call is made and no
\* payload, embed or note, carries anything in the place of a translation.
C14_NoTranslationWithoutBackend ==
    ~openai =>
        \A c \in Slots : \A k \in 1 .. Len(sendLog[c]) :
            /\ sendLog[c][k].calls = 0
            /\ \A slot \in 1 .. 2 : sendLog[c][k].jp[slot] \in {"none", ""}

\* C15: last_check.json is written by the save step of a cycle and by
\* nothing else, a cycle gets to its repositories through its load only,
\* and a cycle that returns has made its save.
C15_OneReadOneWrite ==
    [][/\ file' # file => \E c \in Slots : pc[c] = "save" /\ pc'[c] = "idle"
       /\ \A c \in Slots :
              /\ (pc[c] = "load" /\ pc'[c] # "load" /\ running') => pc'[c] = "repo"
              /\ (pc[c] # "repo" /\ pc'[c] = "repo") => pc[c] \in {"load", "sleep"}
              /\ (pc[c] # "idle" /\ pc'[c] = "idle" /\ running') => pc[c] = "save"]_vars

\* C16: every POST, whether it succeeded or failed, is followed by the
\* sender's pacing delay.
C16_EverySendPaced ==
    \A c \in Slots : \A k \in 1 .. Len(sendLog[c]) : sendLog[c][k].slept

\* the configured repositories before position k of the list
before(k) ==
    {trim(repositories[j]) : j \in 1 .. (k - 1)} \ {<<>>}

\* C17: the order of a cycle.  The repositories done are those before the
\* position of the loop; the comments call is made after the issues call
\* and every POST of the issue loop; the POST to Discord for an item
\* precedes the one to Misskey; the watermark entry is written after both
\* calls and every POST; and the clock advances by the pause when a
\* repository is left, its failure included.
C17_CycleOrder ==
    /\ [](\A c \in Slots :
            /\ pc[c] \notin {"idle", "load"} => done[c] = before(idx[c])
            /\ pc[c] \in {"fetchIssues", "issues"} => commentsFetch[c] = "none"
            /\ \A k \in 1 .. Len(sendLog[c]) :
                   sendLog[c][k].dest = "misskey" =>
                       /\ k > 1
                       /\ sendLog[c][k - 1].dest = "discord"
                       /\ sendLog[c][k - 1].n = sendLog[c][k].n)
    /\ [][\A c \in Slots :
            /\ (pc[c] = "fetchComments" /\ pc'[c] \in {"comments", "update"}) =>
                   /\ issuesFetch[c] # "none"
                   /\ Len(sendLog[c]) = Len(newIssues[c]) * postsPerItem
            /\ (inRepository(c) /\ inRepository(c)' /\ lastCheckTimes'[c] # lastCheckTimes[c]) =>
                   /\ pc[c] = "update"
                   /\ issuesFetch[c] # "none" /\ commentsFetch[c] # "none"
                   /\ Len(sendLog[c]) = Len(newComments[c]) * postsPerItem
            /\ (inRepository(c) /\ pc'[c] = "repo") => clock' >= clock + 1]_vars

\* the second repository of a cycle has failed on a comment after its
\* issues were sent, and is about to pause
C17_Witness ==
    \E c \in Slots :
        /\ finished(c) /\ threw[c]
        /\ done[c] # {}
        /\ newIssues[c] # <<>>
        /\ newComments[c] # <<>>

\* ------------------------------------------------------------ upstream
\* the watermark of the kind in a watermark entry
watermark(e, kind) == IF kind = "issue" THEN e.issues ELSE e.comments

\* every watermark held for repository r and the kind, in last_check.json
\* or by a cycle in flight
Watermarks(r, kind) ==
    UNION ({watermark(entry(m, r), kind) : m \in {lastCheckTimes[c] : c \in inFlight} \cup {file}}
           \cup {watermark(repoTimes[c], kind) :
                    c \in {x \in inFlight : inRepository(x) /\ repo(x) = r}})

\* GitHub: somebody opens an issue, or writes a comment, in a configured
\* repository, at an instant later than every watermark held for it
upstreamCreate ==
    /\ running
    /\ born = None
    /\ \E r \in Configured, kind \in {"issue", "comment"} :
        /\ \A w \in Watermarks(r, kind) : clock > w
        /\ born' = Some([repo |-> r, kind |-> kind, created |-> clock])
    /\ UNCHANGED <<env, proc, clock, file, timerCycles, pc, cycleStart, loaded,
                   lastCheckTimes, idx, repoTimes, newIssues, newComments, i,
                   issuesFetch, commentsFetch, sendLog, threw, done, activity,
                   writes, bornPosts>>

\* the program and one item created upstream while it runs, every read and
\* write of last_check.json succeeding
NextUpstream ==
    \/ start
    \/ intervalCallback
    \/ shutdown
    \/ upstreamCreate
    \/ \E c \in Slots : loadRead(c)
    \/ \E c \in Slots : runCheckLoop(c)
    \/ \E c \in Slots : issuesFetched(c)
    \/ \E c \in Slots : issueLoop(c)
    \/ \E c \in Slots : commentsFetched(c)
    \/ \E c \in Slots : commentLoop(c)
    \/ \E c \in Slots : updateLastCheckTimes(c)
    \/ \E c \in Slots : repositorySleep(c)
    \/ \E c \in Slots : saveWritten(c)

SpecUpstream == InitUpstream /\ [][NextUpstream]_vars

\* C18: no qualifying item is skipped.  An item created upstream that no
\* POST was made for is still later than the watermark last_check.json
\* holds for it, so that the next cycle's fetch returns it.
C18_NoItemSkipped ==
    \A b \in born :
        (bornPosts = 0 /\ file.kind = "object" /\ b.repo \in DOMAIN file.obj) =>
            createdAfter(b, watermark(file.obj[b.repo], b.kind))

\* C19: no item is sent to a destination twice, in the same cycle or in a
\* later one.
C19_SentAtMostOnce == bornPosts <= 1

\* ------------------------------------------------------------ outcomes
\* a fetched item of the repository is malformed: it has no user
malformedItem(c) ==
    \/ \E k \in 1 .. Len(newIssues[c]) : ~newIssues[c][k].user
    \/ \E k \in 1 .. Len(newComments[c]) : ~newComments[c][k].user

\* C20: the watermark entry a repository's processing ends with is given by
\* the loaded entry, the two fetch results and one reading of the clock
\* during the cycle; whether the POSTs and the translation calls of the
\* repository succeeded or failed has no part in it.
C20_OutcomesLeaveWatermarksAlone ==
    \A c \in Slots :
        finished(c) =>
            /\ threw[c] <=> malformedItem(c)
            /\ \E t \in cycleStart[c] .. clock :
                   entry(lastCheckTimes[c], repo(c)) =
                       IF malformedItem(c) THEN entry(loaded[c], repo(c))
                       ELSE Times(advance(newIssues[c], t, repoTimes[c].issues),
                                  advance(newComments[c], t, repoTimes[c].comments))

\* a repository with new issues and new comments, every POST made for the
\* comments refused and every translation call for them failed: both
\* watermarks have advanced
C20_Witness ==
    \E c \in Slots :
        /\ finished(c)
        /\ ~threw[c]
        /\ openai
        /\ newIssues[c] # <<>>
        /\ newComments[c] # <<>>
        /\ Len(sendLog[c]) = Len(newComments[c])
        /\ \A k \in 1 .. Len(sendLog[c]) :
               /\ ~sendLog[c][k].ok
               /\ sendLog[c][k].calls > 0
               /\ sendLog[c][k].jp = <<"none", "none">>
        /\ entry(lastCheckTimes[c], repo(c)) = Times(Some(clock), Some(clock))
====
